---- MODULE Spec2Model ----
(***************************************************************************)
(* Model of the Rutherford scattering simulation engine: the worker script *)
(* inlined in src/App.tsx (particle factory, integration pass, path        *)
(* sampling, emission, start/pause/reset controller).                      *)
(*                                                                         *)
(* Numbers.  The worker computes in IEEE doubles; the model computes in    *)
(* fixed point with sign-symmetric rounding:                               *)
(*   - position            femtometres (1 fm = 1e-15 m = 0.1 display unit) *)
(*   - velocity            femtometres per integration tick                *)
(*   - impact parameters   micro display units (1e-6 px = 1e-20 m), the    *)
(*                         resolution of the toFixed(6) comparison key     *)
(*   - display points      tenths of a display unit                        *)
(*   - hue                 millidegrees                                    *)
(***************************************************************************)
EXTENDS Integers, Sequences, FiniteSets, TLC

\* ---------------------------------------------------------------- bounds
\* largest numParticles offered to reset in the engine specification
MaxParticles == 3
\* largest numParticles offered to reset in the factory specification
MaxFactoryParticles == 50
\* saturation value of the per-run counter of `finished` events
MaxFinishedEvents == 3
\* most integration passes counted since a reset
MaxPasses == 15
\* most clicks (play, pause, reset) of the user after the page is mounted
MaxClicks == 2
\* most events not yet handled by the page when a timer callback posts; the
\* event of a message handler may wait behind one more
MaxInFlight == 1
\* most points the canvas holds in one polyline
MaxPolylinePoints == 3

\* ------------------------------------------------------- program constants
CANVAS_WIDTH == 800
CANVAS_HEIGHT == 600
\* femtometres per display unit (SCALE = 1e-14 m per display unit)
FM_PER_PX == 10
\* micro display units per display unit: the 6 decimals of toFixed(6)
KEY_UNITS_PER_PX == 1000000
\* number of focus-mode pairs
FOCUS_PAIRS == 150
\* escape margin beyond the half canvas, display units
ESCAPE_MARGIN == 50
\* path decimation factor
SAMPLE_EVERY == 5
\* The model's tick is 1000 TIME_STEPs long, so that a particle crosses the
\* field in about ten ticks; the two kinematic coefficients are in its units.
\* 2 * JOULES_PER_MEV / ALPHA_PARTICLE_MASS, in (fm per tick)^2 per MeV
V0SQ_PER_MEV == 482000
\* K_COULOMB * 2 * ELEMENTARY_CHARGE^2 / ALPHA_PARTICLE_MASS, in fm^3 per
\* tick^2 per unit of targetZ
ACC_COEF == 695000

\* the value of `settings` before the first reset
NULL == [ isNull |-> TRUE ]

\* ------------------------------------------------------------ arithmetic
Abs(n) == IF n < 0 THEN -n ELSE n

Sign(n) == IF n < 0 THEN -1 ELSE IF n > 0 THEN 1 ELSE 0

\* variant of SDiv: the quotient is rounded toward minus infinity
SDiv_floor(a, b) == a \div b

\* division rounding toward zero: like IEEE division, it commutes with negation
SDiv(a, b) == Sign(a) * Sign(b) * (Abs(a) \div Abs(b))

\* division rounding to nearest (ties away from zero), b > 0
RDiv(a, b) == Sign(a) * ((2 * Abs(a) + b) \div (2 * b))

\* Math.sqrt on the fixed-point grid: the largest r with r*r <= n, n < 2^30
RECURSIVE IsqrtBits(_, _, _)
IsqrtBits(n, bit, r) ==
    IF bit = 0 THEN r
    ELSE IF (r + bit) * (r + bit) <= n
         THEN IsqrtBits(n, bit \div 2, r + bit)
         ELSE IsqrtBits(n, bit \div 2, r)

Isqrt(n) == IsqrtBits(n, 16384, 0)

\* Number.prototype.toFixed(6) of the display-unit value num/den (den > 0),
\* as the integer count of micro display units it prints
ToFixed6(num, den) ==
    Sign(num) * ((Abs(num) \div den) * KEY_UNITS_PER_PX
                 + RDiv((Abs(num) % den) * KEY_UNITS_PER_PX, den))

\* -------------------------------------------------------- particle factory
\* initialVelocityX = sqrt(2 * energy * JOULES_PER_MEV / ALPHA_PARTICLE_MASS)
InitialVelocityX(energy) == Isqrt(V0SQ_PER_MEV * energy)

\* variant of ParticleData: stepCount starts at 1
ParticleData_stepCountOne(num, den, v0) ==
    [ key |-> ToFixed6(num, den),
      position |-> [ x |-> -((CANVAS_WIDTH \div 2) * FM_PER_PX),
                     y |-> RDiv(num * FM_PER_PX, den) ],
      velocity |-> [ x |-> v0, y |-> 0 ],
      impactParameterInPixels |-> ToFixed6(num, den),
      impactParameter |-> Abs(ToFixed6(num, den)),
      stepCount |-> 1,
      finished |-> FALSE ]

\* the particleData object built by addParticle for the impact parameter
\* num/den display units
ParticleData(num, den, v0) ==
    [ key |-> ToFixed6(num, den),
      position |-> [ x |-> -((CANVAS_WIDTH \div 2) * FM_PER_PX),
                     y |-> RDiv(num * FM_PER_PX, den) ],
      velocity |-> [ x |-> v0, y |-> 0 ],
      impactParameterInPixels |-> ToFixed6(num, den),
      impactParameter |-> Abs(ToFixed6(num, den)),
      stepCount |-> 0,
      finished |-> FALSE ]

\* variant of MapHas: no key is ever reported as present
MapHas_never(map, key) == FALSE

\* particleMap.has(key) on the insertion-ordered map
MapHas(map, key) == \E k \in 1..Len(map) : map[k].key = key

\* variant of addParticle: the key is taken from the magnitude only
addParticle_absKey(map, num, den, v0) ==
    IF MapHas(map, ToFixed6(Abs(num), den)) THEN map
    ELSE Append(map, [ ParticleData(num, den, v0) EXCEPT
                         !.key = ToFixed6(Abs(num), den) ])

\* addParticle(impactB_pixels): dropped when the key is already present
addParticle(map, num, den, v0) ==
    IF MapHas(map, ToFixed6(num, den)) THEN map
    ELSE Append(map, ParticleData(num, den, v0))

\* variant of FocusPair: -i fm is added before +i fm
FocusPair_minusFirst(map, i, v0) ==
    addParticle(addParticle(map, -i, FM_PER_PX, v0), i, FM_PER_PX, v0)

\* the body of the focus-mode loop: addParticle(+i fm); addParticle(-i fm)
FocusPair(map, i, v0) ==
    addParticle(addParticle(map, i, FM_PER_PX, v0), -i, FM_PER_PX, v0)

\* the focus-mode loop for i = lo..hi: +i fm then -i fm, in increasing i
\* (the range is split in halves, the lower half evaluated first, to keep
\* the evaluation shallow)
RECURSIVE FocusLoop(_, _, _, _)
FocusLoop(map, lo, hi, v0) ==
    IF lo > hi THEN map
    ELSE IF lo = hi
         THEN FocusPair(map, lo, v0)
         ELSE LET mid == (lo + hi) \div 2
                  lower == FocusLoop(map, lo, mid, v0)
              IN  IF Len(lower) >= 0
                  THEN FocusLoop(lower, mid + 1, hi, v0)
                  ELSE lower

\* CANVAS_HEIGHT / 2 * 0.8
BandHalfHeight == (CANVAS_HEIGHT * 8) \div 20

\* variant of StandardImpact: stepIndex is i + 1, so no two particles pair up
StandardImpact_noPairing(i, n) ==
    LET halfNum   == n \div 2
        stepIndex == i + 1
        sign      == IF i % 2 = 0 THEN 1 ELSE -1
    IN  IF halfNum > 0
        THEN [ num |-> stepIndex * BandHalfHeight * sign, den |-> halfNum ]
        ELSE [ num |-> 0, den |-> 1 ]

\* impactB_pixels of standard particle i of n, as the fraction num/den
StandardImpact(i, n) ==
    LET halfNum   == n \div 2
        stepIndex == (i \div 2) + 1
        sign      == IF i % 2 = 0 THEN 1 ELSE -1
    IN  IF halfNum > 0
        THEN [ num |-> stepIndex * BandHalfHeight * sign, den |-> halfNum ]
        ELSE [ num |-> 0, den |-> 1 ]

\* the standard-particle loop for i = lo..hi of numStandardParticles = n,
\* in increasing i (the range is split in halves as in FocusLoop)
RECURSIVE StandardLoop(_, _, _, _, _)
StandardLoop(map, lo, hi, n, v0) ==
    IF lo > hi THEN map
    ELSE IF lo = hi
         THEN addParticle(map, StandardImpact(lo, n).num, StandardImpact(lo, n).den, v0)
         ELSE LET mid == (lo + hi) \div 2
                  lower == StandardLoop(map, lo, mid, n, v0)
              IN  IF Len(lower) >= 0
                  THEN StandardLoop(lower, mid + 1, hi, n, v0)
                  ELSE lower

\* variant of ParticleMap: the standard loop runs for i = 0..numParticles
ParticleMap_inclusive(s) ==
    LET v0    == InitialVelocityX(s.energy)
        focus == IF s.isFocusModeEnabled
                 THEN FocusLoop(<<>>, 1, FOCUS_PAIRS, v0)
                 ELSE <<>>
    IN  StandardLoop(focus, 0, s.numParticles, s.numParticles, v0)

\* Array.from(particleMap.values()) for the given settings
ParticleMap(s) ==
    LET v0    == InitialVelocityX(s.energy)
        focus == IF s.isFocusModeEnabled
                 THEN FocusLoop(<<>>, 1, FOCUS_PAIRS, v0)
                 ELSE <<>>
    IN  StandardLoop(focus, 0, s.numParticles - 1, s.numParticles, v0)

\* hue of hsl((index * 360) / finalNumParticles, 90%, 70%), millidegrees
Color(index, finalNumParticles) == (index * 360000) \div finalNumParticles

\* variant of FinalParticles: ids are counted from one
FinalParticles_oneBased(s) ==
    IF s = NULL THEN <<>>
    ELSE LET map == ParticleMap(s)
         IN  [ k \in 1..Len(map) |->
                 [ id |-> k,
                   color |-> Color(k, Len(map)),
                   position |-> map[k].position,
                   velocity |-> map[k].velocity,
                   impactParameter |-> map[k].impactParameter,
                   stepCount |-> map[k].stepCount,
                   finished |-> map[k].finished ] ]

\* the forEach that assigns id and color and deletes impactParameterInPixels
FinalParticles(s) ==
    IF s = NULL THEN <<>>
    ELSE LET map == ParticleMap(s)
         IN  [ k \in 1..Len(map) |->
                 [ id |-> k - 1,
                   color |-> Color(k - 1, Len(map)),
                   position |-> map[k].position,
                   velocity |-> map[k].velocity,
                   impactParameter |-> map[k].impactParameter,
                   stepCount |-> map[k].stepCount,
                   finished |-> map[k].finished ] ]

\* initialPaths: id -> [ {x: 0, y: CANVAS_HEIGHT / 2 + impactParameterInPixels} ]
InitialPaths(s) ==
    IF s = NULL THEN << >>
    ELSE LET map == ParticleMap(s)
         IN  [ id \in 0..(Len(map) - 1) |->
                 << [ x |-> 0,
                      y |-> (CANVAS_HEIGHT \div 2) * FM_PER_PX
                            + RDiv(map[id + 1].impactParameterInPixels,
                                   KEY_UNITS_PER_PX \div FM_PER_PX) ] >> ]

\* ------------------------------------------------------ integration pass
\* variant of Escaped: the boundary is the edge of the canvas, without margin
Escaped_noMargin(p) ==
    LET boundaryX == (CANVAS_WIDTH \div 2) * FM_PER_PX
        boundaryY == (CANVAS_HEIGHT \div 2) * FM_PER_PX
    IN  \/ p.position.x > boundaryX
        \/ p.position.x < -boundaryX
        \/ p.position.y > boundaryY
        \/ p.position.y < -boundaryY

\* escaped: beyond the half canvas plus the margin on either axis
Escaped(p) ==
    LET boundaryX == ((CANVAS_WIDTH \div 2) + ESCAPE_MARGIN) * FM_PER_PX
        boundaryY == ((CANVAS_HEIGHT \div 2) + ESCAPE_MARGIN) * FM_PER_PX
    IN  \/ p.position.x > boundaryX
        \/ p.position.x < -boundaryX
        \/ p.position.y > boundaryY
        \/ p.position.y < -boundaryY

\* rMagnitude < 1e-15: closer than one femtometre to the nucleus
NearContact(p) ==
    Isqrt(p.position.x * p.position.x + p.position.y * p.position.y) < 1

\* variant of Acceleration: the force is computed for a fixed nuclear charge
Acceleration_fixedCharge(p, targetZ) ==
    LET rx == p.position.x
        ry == p.position.y
        rMagnitude == Isqrt(rx * rx + ry * ry)
        accMagnitude == SDiv(ACC_COEF * 20, rx * rx + ry * ry)
    IN  [ x |-> SDiv(accMagnitude * rx, rMagnitude),
          y |-> SDiv(accMagnitude * ry, rMagnitude) ]

\* force / ALPHA_PARTICLE_MASS * TIME_STEP: the velocity change of one pass
Acceleration(p, targetZ) ==
    LET rx == p.position.x
        ry == p.position.y
        rMagnitude == Isqrt(rx * rx + ry * ry)
        accMagnitude == SDiv(ACC_COEF * targetZ, rx * rx + ry * ry)
    IN  [ x |-> SDiv(accMagnitude * rx, rMagnitude),
          y |-> SDiv(accMagnitude * ry, rMagnitude) ]

\* variant of Advance: the position is moved by the velocity before its update
Advance_staleVelocity(p, targetZ) ==
    LET acceleration == Acceleration(p, targetZ)
        newVelocity == [ x |-> p.velocity.x + acceleration.x,
                         y |-> p.velocity.y + acceleration.y ]
        newPosition == [ x |-> p.position.x + p.velocity.x,
                         y |-> p.position.y + p.velocity.y ]
    IN  [ p EXCEPT !.position = newPosition,
                   !.velocity = newVelocity,
                   !.stepCount = p.stepCount + 1 ]

\* velocity-then-position update, stepCount increment
Advance(p, targetZ) ==
    LET acceleration == Acceleration(p, targetZ)
        newVelocity == [ x |-> p.velocity.x + acceleration.x,
                         y |-> p.velocity.y + acceleration.y ]
        newPosition == [ x |-> p.position.x + newVelocity.x,
                         y |-> p.position.y + newVelocity.y ]
    IN  [ p EXCEPT !.position = newPosition,
                   !.velocity = newVelocity,
                   !.stepCount = p.stepCount + 1 ]

\* TRUE when the forEach body reaches the integration for p
Integrated(p) == ~p.finished /\ ~Escaped(p) /\ ~NearContact(p)

\* variant of TickParticle: stepCount is bumped before the finished check
TickParticle_countsFinished(p, targetZ) ==
    IF p.finished THEN [ p EXCEPT !.stepCount = p.stepCount + 1 ]
    ELSE IF Escaped(p) THEN [ p EXCEPT !.finished = TRUE ]
    ELSE IF NearContact(p) THEN [ p EXCEPT !.finished = TRUE ]
    ELSE Advance(p, targetZ)

\* the forEach body for one particle
TickParticle(p, targetZ) ==
    IF p.finished THEN p
    ELSE IF Escaped(p) THEN [ p EXCEPT !.finished = TRUE ]
    ELSE IF NearContact(p) THEN [ p EXCEPT !.finished = TRUE ]
    ELSE Advance(p, targetZ)

\* variant of FinishedCount: particles marked in this pass are not counted
FinishedCount_entryOnly(ps) ==
    Cardinality({ k \in 1..Len(ps) : ps[k].finished })

\* finishedCount after the forEach over ps
FinishedCount(ps) ==
    Cardinality({ k \in 1..Len(ps) :
                    ps[k].finished \/ Escaped(ps[k]) \/ NearContact(ps[k]) })

\* the display-space point sampled for an advanced particle
PathPoint(p) ==
    [ x |-> p.position.x + (CANVAS_WIDTH \div 2) * FM_PER_PX,
      y |-> p.position.y + (CANVAS_HEIGHT \div 2) * FM_PER_PX ]

\* variant of Sampled: stepCount is tested before it is incremented
Sampled_beforeIncrement(p, targetZ) ==
    Integrated(p) /\ p.stepCount % SAMPLE_EVERY = 0

\* TRUE when the pass pushes a point for p (p as it is before the pass)
Sampled(p, targetZ) ==
    Integrated(p) /\ Advance(p, targetZ).stepCount % SAMPLE_EVERY = 0

\* newPathData after the forEach over ps
SamplePaths(paths, ps, targetZ) ==
    LET pushed == { ps[k].id : k \in { j \in 1..Len(ps) : Sampled(ps[j], targetZ) } }
        byId(id) == CHOOSE k \in 1..Len(ps) : ps[k].id = id
    IN  [ id \in (DOMAIN paths) \cup pushed |->
            LET old == IF id \in DOMAIN paths THEN paths[id] ELSE <<>>
            IN  IF id \in pushed
                THEN Append(old, PathPoint(Advance(ps[byId(id)], targetZ)))
                ELSE old ]

\* ------------------------------------------------------- scatter analysis
\* variant of AbsAtan2Deg: Math.abs is missing, the angle keeps the sign of y
AbsAtan2Deg_signed(y, x) ==
    LET a == Abs(y)
        b == Abs(x)
        ratio45(lo, hi) == IF hi < 45000000 THEN (45 * lo) \div hi
                           ELSE lo \div (hi \div 45)
        acute == IF a = 0 THEN 0
                 ELSE IF a <= b THEN ratio45(a, b)
                 ELSE 90 - ratio45(b, a)
    IN  Sign(y) * (IF x >= 0 THEN acute ELSE 180 - acute)

\* |atan2(y, x)| in whole degrees, piecewise linear over each octant
AbsAtan2Deg(y, x) ==
    LET a == Abs(y)
        b == Abs(x)
        \* 45 * lo / hi for 0 <= lo <= hi, hi > 0, within 32 bits
        ratio45(lo, hi) == IF hi < 45000000 THEN (45 * lo) \div hi
                           ELSE lo \div (hi \div 45)
        acute == IF a = 0 THEN 0
                 ELSE IF a <= b THEN ratio45(a, b)
                 ELSE 90 - ratio45(b, a)
    IN  IF x >= 0 THEN acute ELSE 180 - acute

\* impact-parameter units (1e-20 m) per thousandth of a femtometre
MILLI_FM_UNITS == KEY_UNITS_PER_PX \div (FM_PER_PX * 1000)

\* scatterData: one record per particle, in particle order; x in thousandths
\* of a femtometre (impactParameter / 1e-15), y in degrees
ScatterData(ps) ==
    [ k \in 1..Len(ps) |->
        [ x |-> RDiv(ps[k].impactParameter, MILLI_FM_UNITS),
          y |-> AbsAtan2Deg(ps[k].velocity.y, ps[k].velocity.x) ] ]

\* ------------------------------------------------------------ the engine
VARIABLES
    particles,       \* let particles: the particle list
    newPathData,     \* let newPathData: particle id -> pending display points
    settings,        \* let settings: NULL or the settings of the last reset
    physicsTimer,    \* let physicsTimer: interval handle, 0 for null
    updateTimer,     \* let updateTimer: interval handle, 0 for null
    isRunning,       \* let isRunning
    intervals,       \* the runtime's active interval timers: [id, fn] records
    pending,         \* callbacks whose timer has fired and that are queued to run
    emitted,         \* events posted by the handler that ran last, in order
    lastOp,          \* name of the handler that ran last
    lastWasRunning,  \* isRunning when that handler was entered
    finishedEvents,  \* `finished` events posted since the last reset (saturating)
    passes,          \* integration passes over the particles since the last reset (saturating)
    toWorker,        \* messages posted by the page, not yet handled by the worker
    toApp,           \* events posted by the worker, not yet handled by the page
    app,             \* the useState values of App
    canvas,          \* the refs of SimulationCanvas: polylines, lastSimulationId
    received,        \* type of the event the page handled last, and whether it carried paths
    clicks,          \* number of clicks of the user so far
    built,           \* number of resets the worker has handled: the particle set in use
    toAppBuilt,      \* for each event of toApp, the value of built when it was posted
    shown            \* value of built carried by the last resetComplete and by the
                     \* last finished the page has handled

engineVars == << particles, newPathData, settings, physicsTimer, updateTimer,
                 isRunning, intervals >>

vars == << particles, newPathData, settings, physicsTimer, updateTimer,
           isRunning, intervals, pending, emitted, lastOp, lastWasRunning,
           finishedEvents, passes, toWorker, toApp, app, canvas, received, clicks,
           built, toAppBuilt, shown >>

appVars == << toWorker, toApp, app, canvas, received, clicks,
             built, toAppBuilt, shown >>

historyVars == << emitted, lastOp, lastWasRunning, finishedEvents, passes >>

\* the worker's state as one value, with the events posted so far by a handler
Engine ==
    [ particles |-> particles, newPathData |-> newPathData,
      settings |-> settings, physicsTimer |-> physicsTimer,
      updateTimer |-> updateTimer, isRunning |-> isRunning,
      intervals |-> intervals, posted |-> <<>> ]

\* setInterval(fn, ...): registers an interval and returns its handle
NewHandle(ivs) ==
    CHOOSE h \in 1..(Cardinality(ivs) + 1) : \A t \in ivs : t.id # h

\* variant of SetInterval: the integration callback is never scheduled
SetInterval_dropsPhysics(ivs, fn) ==
    IF fn = "runSimulationStep" THEN ivs
    ELSE ivs \cup { [ id |-> NewHandle(ivs), fn |-> fn ] }

SetInterval(ivs, fn) == ivs \cup { [ id |-> NewHandle(ivs), fn |-> fn ] }

\* variant of clearInterval: the interval stays registered
ClearInterval_keepsInterval(ivs, handle) == ivs

\* clearInterval(handle)
ClearInterval(ivs, handle) == { t \in ivs : t.id # handle }

\* variant of UpdateEvent: newPaths carries only the first pending buffer
UpdateEvent_firstBufferOnly(e) ==
    [ type |-> "update",
      particles |-> [ k \in 1..Len(e.particles) |->
                        [ id |-> e.particles[k].id,
                          position |-> e.particles[k].position,
                          color |-> e.particles[k].color ] ],
      newPaths |-> [ id \in { i \in DOMAIN e.newPathData :
                                \A o \in DOMAIN e.newPathData : i <= o }
                       |-> e.newPathData[id] ] ]

\* payload of the `update` event
UpdateEvent(e) ==
    [ type |-> "update",
      particles |-> [ k \in 1..Len(e.particles) |->
                        [ id |-> e.particles[k].id,
                          position |-> e.particles[k].position,
                          color |-> e.particles[k].color ] ],
      newPaths |-> e.newPathData ]

\* variant of sendUpdate: the isRunning guard is missing
sendUpdate_noGuard(e) ==
    [ e EXCEPT !.posted = Append(@, UpdateEvent(e)),
               !.newPathData = << >> ]

\* sendUpdate()
sendUpdate(e) ==
    IF ~e.isRunning THEN e
    ELSE [ e EXCEPT !.posted = Append(@, UpdateEvent(e)),
                    !.newPathData = << >> ]

\* variant of Complete: the particle list is emptied once the run is over
Complete_clearsParticles(e) ==
    LET stopped == [ e EXCEPT
                       !.isRunning = FALSE,
                       !.intervals = ClearInterval(ClearInterval(@, e.physicsTimer),
                                                   e.updateTimer),
                       !.physicsTimer = 0,
                       !.updateTimer = 0 ]
        sent == sendUpdate(stopped)
    IN  [ sent EXCEPT !.particles = << >>,
                      !.posted =
            Append(@, [ type |-> "finished",
                        scatterData |-> ScatterData(sent.particles) ]) ]

\* the natural-completion branch of runSimulationStep
Complete(e) ==
    LET stopped == [ e EXCEPT
                       !.isRunning = FALSE,
                       !.intervals = ClearInterval(ClearInterval(@, e.physicsTimer),
                                                   e.updateTimer),
                       !.physicsTimer = 0,
                       !.updateTimer = 0 ]
        sent == sendUpdate(stopped)
    IN  [ sent EXCEPT !.posted =
            Append(@, [ type |-> "finished",
                        scatterData |-> ScatterData(sent.particles) ]) ]

\* variant of runSimulationStep: the guard does not look at isRunning
runSimulationStep_noRunningGuard(e) ==
    IF e.settings = NULL \/ Len(e.particles) = 0 THEN e
    ELSE LET stepped ==
                 [ e EXCEPT
                     !.particles = [ k \in 1..Len(e.particles) |->
                                       TickParticle(e.particles[k], e.settings.targetZ) ],
                     !.newPathData = SamplePaths(e.newPathData, e.particles,
                                                 e.settings.targetZ) ]
         IN  IF Len(e.particles) > 0 /\ FinishedCount(e.particles) = Len(e.particles)
             THEN Complete(stepped)
             ELSE stepped

\* runSimulationStep()
runSimulationStep(e) ==
    IF ~e.isRunning \/ e.settings = NULL \/ Len(e.particles) = 0 THEN e
    ELSE LET stepped ==
                 [ e EXCEPT
                     !.particles = [ k \in 1..Len(e.particles) |->
                                       TickParticle(e.particles[k], e.settings.targetZ) ],
                     !.newPathData = SamplePaths(e.newPathData, e.particles,
                                                 e.settings.targetZ) ]
         IN  IF Len(e.particles) > 0 /\ FinishedCount(e.particles) = Len(e.particles)
             THEN Complete(stepped)
             ELSE stepped

\* variant of stopSimulation: the emission timer is left alone
stopSimulation_keepsUpdateTimer(e) ==
    [ e EXCEPT
        !.isRunning = FALSE,
        !.intervals = ClearInterval(@, e.physicsTimer),
        !.physicsTimer = 0 ]

\* stopSimulation()
stopSimulation(e) ==
    [ e EXCEPT
        !.isRunning = FALSE,
        !.intervals = ClearInterval(ClearInterval(@, e.physicsTimer), e.updateTimer),
        !.physicsTimer = 0,
        !.updateTimer = 0 ]

\* variant of onStart: timers are created without looking at the state
onStart_noGuards(e) ==
    LET withPhysics == [ e EXCEPT !.physicsTimer = NewHandle(e.intervals),
                                  !.intervals = SetInterval(@, "runSimulationStep") ]
    IN  [ withPhysics EXCEPT
            !.updateTimer = NewHandle(withPhysics.intervals),
            !.intervals = SetInterval(@, "sendUpdate"),
            !.isRunning = TRUE ]

\* case 'start'
onStart(e) ==
    IF e.isRunning THEN e
    ELSE LET withPhysics ==
                 IF e.physicsTimer = 0
                 THEN [ e EXCEPT !.physicsTimer = NewHandle(e.intervals),
                                 !.intervals = SetInterval(@, "runSimulationStep") ]
                 ELSE e
             withUpdate ==
                 IF withPhysics.updateTimer = 0
                 THEN [ withPhysics EXCEPT
                          !.updateTimer = NewHandle(withPhysics.intervals),
                          !.intervals = SetInterval(@, "sendUpdate") ]
                 ELSE withPhysics
         IN  [ withUpdate EXCEPT !.isRunning = TRUE ]

\* case 'pause'
onPause(e) == stopSimulation(e)

\* variant of onReset: the particles are kept when the settings did not change
onReset_reusesParticles(e, s) ==
    LET stopped == stopSimulation(e)
        finalParticles == IF e.settings = s THEN e.particles ELSE FinalParticles(s)
    IN  [ stopped EXCEPT
            !.settings = s,
            !.particles = finalParticles,
            !.newPathData = << >>,
            !.posted = Append(@, [ type |-> "resetComplete",
                                   particles |-> finalParticles,
                                   initialPaths |-> InitialPaths(s) ]) ]

\* case 'reset' with payload.settings = s
onReset(e, s) ==
    LET stopped == stopSimulation(e)
        finalParticles == FinalParticles(s)
    IN  [ stopped EXCEPT
            !.settings = s,
            !.particles = finalParticles,
            !.newPathData = << >>,
            !.posted = Append(@, [ type |-> "resetComplete",
                                   particles |-> finalParticles,
                                   initialPaths |-> InitialPaths(s) ]) ]

\* number of `finished` events among the posted ones
CountFinished(evs) == Cardinality({ k \in 1..Len(evs) : evs[k].type = "finished" })

Min(a, b) == IF a < b THEN a ELSE b

\* the worker's state becomes e after handler op
Becomes(e, op) ==
    /\ particles' = e.particles
    /\ newPathData' = e.newPathData
    /\ settings' = e.settings
    /\ physicsTimer' = e.physicsTimer
    /\ updateTimer' = e.updateTimer
    /\ isRunning' = e.isRunning
    /\ intervals' = e.intervals
    /\ emitted' = e.posted
    /\ lastOp' = op
    /\ lastWasRunning' = isRunning
    /\ finishedEvents' =
         IF op = "reset" THEN 0
         ELSE Min(finishedEvents + CountFinished(e.posted), MaxFinishedEvents)
    /\ passes' =
         IF op = "reset" THEN 0
         ELSE IF op = "runSimulationStep" /\ isRunning /\ settings # NULL
                 /\ Len(particles) > 0
         THEN Min(passes + 1, MaxPasses)
         ELSE passes

\* ------------------------------------------------------------ inputs
Energies == { 1 }
TargetZs == { 20, 79 }

\* the settings offered to reset in the engine specification
SettingsInputs ==
    [ energy : Energies, numParticles : 0..MaxParticles,
      targetZ : TargetZs, isFocusModeEnabled : { FALSE } ]

\* ------------------------------------------------------------ the page
\* the useState values of App after the first render
FreshApp ==
    [ status |-> "idle", particles |-> << >>, newPaths |-> << >>,
      simulationId |-> 0, scatterData |-> << >> ]

\* the refs of SimulationCanvas after the layout effect of the first render
FreshCanvas == [ polylines |-> << >>, lastSimulationId |-> 0 ]

\* variant of onWorkerMessage: resetComplete leaves scatterData as it is
onWorkerMessage_keepsScatterData(a, ev) ==
    IF ev.type = "update"
    THEN [ a EXCEPT !.particles = ev.particles,
                    !.newPaths = IF DOMAIN ev.newPaths # {} THEN ev.newPaths ELSE @ ]
    ELSE IF ev.type = "finished"
    THEN [ a EXCEPT !.status = "paused",
                    !.scatterData = ev.scatterData ]
    ELSE [ a EXCEPT !.status = "idle",
                    !.simulationId = @ + 1,
                    !.particles = ev.particles,
                    !.newPaths = ev.initialPaths ]

\* worker.onmessage: the state setters called for the event ev
onWorkerMessage(a, ev) ==
    IF ev.type = "update"
    THEN [ a EXCEPT !.particles = ev.particles,
                    !.newPaths = IF DOMAIN ev.newPaths # {} THEN ev.newPaths ELSE @ ]
    ELSE IF ev.type = "finished"
    THEN [ a EXCEPT !.status = "paused",
                    !.scatterData = ev.scatterData ]
    ELSE [ a EXCEPT !.status = "idle",
                    !.simulationId = @ + 1,
                    !.particles = ev.particles,
                    !.newPaths = ev.initialPaths,
                    !.scatterData = << >> ]

\* no resetComplete and no finished handled yet
FreshShown == [ reset |-> 0, finished |-> 0 ]

\* shown after the page has handled an event of type evType posted while the
\* worker used the particle set b
Shows(sh, evType, b) ==
    IF evType = "resetComplete" THEN [ sh EXCEPT !.reset = b ]
    ELSE IF evType = "finished" THEN [ sh EXCEPT !.finished = b ]
    ELSE sh

\* TRUE when handling ev changes a dependency of the canvas layout effect:
\* setParticles gets a new array (so colorMap is rebuilt) on every `update`
\* and `resetComplete`; `finished` touches none of the canvas props
EffectRuns(ev) == ev.type \in { "update", "resetComplete" }

\* the layout effect of SimulationCanvas, run with the props held by a
CanvasEffect(c, a) ==
    LET kept == IF a.simulationId # c.lastSimulationId THEN << >> ELSE c.polylines
        drawn == { id \in DOMAIN a.newPaths :
                     /\ Len(a.newPaths[id]) > 0
                     /\ \/ id \in DOMAIN kept
                        \/ \E k \in 1..Len(a.particles) : a.particles[k].id = id }
    IN  [ polylines |->
            [ id \in (DOMAIN kept) \cup drawn |->
                (IF id \in DOMAIN kept THEN kept[id] ELSE << >>)
                  \o (IF id \in drawn THEN a.newPaths[id] ELSE << >>) ],
          lastSimulationId |-> a.simulationId ]

\* ------------------------------------------------------------ actions
Init ==
    /\ particles = << >>
    /\ newPathData = << >>
    /\ settings = NULL
    /\ physicsTimer = 0
    /\ updateTimer = 0
    /\ isRunning = FALSE
    /\ intervals = {}
    /\ pending = {}
    /\ emitted = << >>
    /\ lastOp = "init"
    /\ lastWasRunning = FALSE
    /\ finishedEvents = 0
    /\ passes = 0
    /\ toWorker = << >>
    /\ toApp = << >>
    /\ app = FreshApp
    /\ canvas = FreshCanvas
    /\ received = NULL
    /\ clicks = 0
    /\ built = 0
    /\ toAppBuilt = << >>
    /\ shown = FreshShown

\* self.onmessage({type: 'start'})
Start ==
    /\ Becomes(onStart(Engine), "start")
    /\ UNCHANGED << pending, appVars >>

\* self.onmessage({type: 'pause'})
Pause ==
    /\ Becomes(onPause(Engine), "pause")
    /\ UNCHANGED << pending, appVars >>

\* self.onmessage({type: 'reset', payload: {settings: s}})
Reset ==
    \E s \in SettingsInputs :
        /\ Becomes(onReset(Engine, s), "reset")
        /\ UNCHANGED << pending, appVars >>

\* an active interval expires: its callback is queued
TimerFire ==
    \E t \in intervals :
        /\ t.fn \notin pending
        /\ pending' = pending \cup { t.fn }
        /\ UNCHANGED << engineVars, historyVars, appVars >>

\* a queued integration callback runs
PhysicsTick ==
    /\ "runSimulationStep" \in pending
    /\ pending' = pending \ { "runSimulationStep" }
    /\ Becomes(runSimulationStep(Engine), "runSimulationStep")
    /\ UNCHANGED appVars

\* a queued emission callback runs
EmissionTick ==
    /\ "sendUpdate" \in pending
    /\ pending' = pending \ { "sendUpdate" }
    /\ Becomes(sendUpdate(Engine), "sendUpdate")
    /\ UNCHANGED appVars

Next == Start \/ Pause \/ Reset \/ TimerFire \/ PhysicsTick \/ EmissionTick

Spec == Init /\ [][Next]_vars

\* the expiry of the integration interval, and the queued pass it leads to
PhysicsTimerFire ==
    /\ TimerFire
    /\ "runSimulationStep" \notin pending
    /\ "runSimulationStep" \in pending'

\* a PhysicsTick step as seen on pending and lastOp: every step of Next that
\* satisfies it is a PhysicsTick step, and every PhysicsTick step satisfies it
PhysicsTickRuns ==
    /\ "runSimulationStep" \in pending
    /\ pending' = pending \ { "runSimulationStep" }
    /\ lastOp' = "runSimulationStep"

\* setInterval keeps firing the integration callback while it is registered,
\* and a queued callback is run by the event loop
SpecFair ==
    /\ Init
    /\ [][Next]_vars
    /\ WF_vars(PhysicsTimerFire)
    /\ WF_<<pending, lastOp>>(PhysicsTickRuns)

\* the expiry of the emission interval
UpdateTimerFire ==
    /\ TimerFire
    /\ "sendUpdate" \notin pending
    /\ "sendUpdate" \in pending'

\* an EmissionTick step as seen on pending and lastOp
EmissionTickRuns ==
    /\ "sendUpdate" \in pending
    /\ pending' = pending \ { "sendUpdate" }
    /\ lastOp' = "sendUpdate"

\* both intervals keep firing while they are registered, and the event loop
\* runs every queued callback
SpecFairTimers ==
    /\ Init
    /\ [][Next]_vars
    /\ WF_vars(PhysicsTimerFire)
    /\ WF_<<pending, lastOp>>(PhysicsTickRuns)
    /\ WF_vars(UpdateTimerFire)
    /\ WF_<<pending, lastOp>>(EmissionTickRuns)

\* ------------------------------------- the page and the worker together
\* the settings the page posts with a reset
AppSettingsInputs ==
    [ energy : { 5 }, numParticles : { 1 },
      targetZ : { 79 }, isFocusModeEnabled : { FALSE } ]

\* the page is mounted: the worker is created and the mount effect has posted
\* the first reset
InitApp ==
    /\ particles = << >>
    /\ newPathData = << >>
    /\ settings = NULL
    /\ physicsTimer = 0
    /\ updateTimer = 0
    /\ isRunning = FALSE
    /\ intervals = {}
    /\ pending = {}
    /\ emitted = << >>
    /\ lastOp = "init"
    /\ lastWasRunning = FALSE
    /\ finishedEvents = 0
    /\ passes = 0
    /\ \E s \in AppSettingsInputs : toWorker = << [ type |-> "reset", settings |-> s ] >>
    /\ toApp = << >>
    /\ app = FreshApp
    /\ canvas = FreshCanvas
    /\ received = NULL
    /\ clicks = 0
    /\ built = 0
    /\ toAppBuilt = << >>
    /\ shown = FreshShown

\* handleStart: the play button while status is not 'running'
ClickStart ==
    /\ app.status # "running"
    /\ clicks < MaxClicks
    /\ clicks' = clicks + 1
    /\ toWorker' = Append(toWorker, [ type |-> "start" ])
    /\ app' = [ app EXCEPT !.status = "running" ]
    /\ UNCHANGED << engineVars, pending, historyVars, toApp, canvas, received,
                    built, toAppBuilt, shown >>

\* handleStop: the same button while status is 'running'
ClickStop ==
    /\ app.status = "running"
    /\ clicks < MaxClicks
    /\ clicks' = clicks + 1
    /\ toWorker' = Append(toWorker, [ type |-> "pause" ])
    /\ app' = [ app EXCEPT !.status = "paused" ]
    /\ UNCHANGED << engineVars, pending, historyVars, toApp, canvas, received,
                    built, toAppBuilt, shown >>

\* resetSimulation: the reset button, or the effect that follows a settings change
ClickReset ==
    /\ clicks < MaxClicks
    /\ clicks' = clicks + 1
    /\ \E s \in AppSettingsInputs :
         toWorker' = Append(toWorker, [ type |-> "reset", settings |-> s ])
    /\ UNCHANGED << engineVars, pending, historyVars, toApp, app, canvas, received,
                    built, toAppBuilt, shown >>

\* self.onmessage: the worker handles the oldest message of the page
WorkerReceive ==
    /\ toWorker # << >>
    /\ LET msg == Head(toWorker)
           e == IF msg.type = "start" THEN onStart(Engine)
                ELSE IF msg.type = "pause" THEN onPause(Engine)
                ELSE onReset(Engine, msg.settings)
       IN  /\ Len(toApp) + Len(e.posted) <= MaxInFlight + 1
           /\ Becomes(e, msg.type)
           /\ toApp' = toApp \o e.posted
           /\ built' = IF msg.type = "reset" THEN built + 1 ELSE built
           /\ toAppBuilt' = toAppBuilt \o [ k \in 1..Len(e.posted) |-> built' ]
    /\ toWorker' = Tail(toWorker)
    /\ UNCHANGED << pending, app, canvas, received, clicks, shown >>

\* a queued integration callback runs; its events go to the page
WorkerPhysicsTick ==
    /\ "runSimulationStep" \in pending
    /\ LET e == runSimulationStep(Engine)
       IN  /\ Len(toApp) + Len(e.posted) <= MaxInFlight
           /\ Becomes(e, "runSimulationStep")
           /\ toApp' = toApp \o e.posted
           /\ toAppBuilt' = toAppBuilt \o [ k \in 1..Len(e.posted) |-> built ]
    /\ pending' = pending \ { "runSimulationStep" }
    /\ UNCHANGED << toWorker, app, canvas, received, clicks, built, shown >>

\* a queued emission callback runs; its event goes to the page
WorkerEmissionTick ==
    /\ "sendUpdate" \in pending
    /\ LET e == sendUpdate(Engine)
       IN  /\ Len(toApp) + Len(e.posted) <= MaxInFlight
           /\ Becomes(e, "sendUpdate")
           /\ toApp' = toApp \o e.posted
           /\ toAppBuilt' = toAppBuilt \o [ k \in 1..Len(e.posted) |-> built ]
    /\ pending' = pending \ { "sendUpdate" }
    /\ UNCHANGED << toWorker, app, canvas, received, clicks, built, shown >>

\* worker.onmessage: the page handles the oldest event of the worker, renders,
\* and the canvas runs its layout effect when one of its dependencies changed
AppReceive ==
    /\ toApp # << >>
    /\ LET ev == Head(toApp)
           a == onWorkerMessage(app, ev)
           c == IF EffectRuns(ev) THEN CanvasEffect(canvas, a) ELSE canvas
       IN  /\ \A id \in DOMAIN c.polylines : Len(c.polylines[id]) <= MaxPolylinePoints
           /\ app' = a
           /\ canvas' = c
           /\ received' = [ type |-> ev.type,
                            paths |-> IF ev.type = "update" THEN DOMAIN ev.newPaths # {}
                                      ELSE IF ev.type = "resetComplete"
                                      THEN DOMAIN ev.initialPaths # {}
                                      ELSE FALSE ]
           /\ shown' = Shows(shown, ev.type, Head(toAppBuilt))
    /\ toApp' = Tail(toApp)
    /\ toAppBuilt' = Tail(toAppBuilt)
    /\ UNCHANGED << engineVars, pending, historyVars, toWorker, clicks, built >>

NextApp ==
    \/ ClickStart \/ ClickStop \/ ClickReset
    \/ WorkerReceive \/ TimerFire \/ WorkerPhysicsTick \/ WorkerEmissionTick
    \/ AppReceive

SpecApp == InitApp /\ [][NextApp]_vars

\* the particle p after the passes of a whole run at charge targetZ
RECURSIVE RunToEnd(_, _)
RunToEnd(p, targetZ) ==
    IF p.finished THEN p
    ELSE RunToEnd(TickParticle(p, targetZ), targetZ)

\* the scatterAngle reported for p after a whole run at charge targetZ
FinalAngle(p, targetZ) ==
    LET finalVelocity == RunToEnd(p, targetZ).velocity
    IN  AbsAtan2Deg(finalVelocity.y, finalVelocity.x)

\* ------------------------------------------- the particle factory alone
\* the settings offered to the first reset of a fresh worker
FactoryInputs ==
    [ energy : { 1, 5 }, numParticles : 0..MaxFactoryParticles,
      targetZ : { 79 }, isFocusModeEnabled : BOOLEAN ]

\* the first reset message of a fresh worker
FactoryReset ==
    /\ settings = NULL
    /\ \E s \in FactoryInputs :
         /\ Becomes(onReset(Engine, s), "reset")
         /\ UNCHANGED << pending, appVars >>

SpecFactory == Init /\ [][FactoryReset]_vars

\* ------------------------------------------------------------ properties
AllFinished(ps) == \A k \in 1..Len(ps) : ps[k].finished

EventTypes(evs) == [ k \in 1..Len(evs) |-> evs[k].type ]

ParticleIds(ps) == { ps[k].id : k \in 1..Len(ps) }

\* C1: when an integration pass of a Running engine leaves every particle
\* (N > 0) finished, the engine is no longer Running and the pass has posted a
\* final `update` (all particle positions, the pending path points) followed
\* by `finished`, in that order.
C1_FinalSnapshotThenFinished ==
    ( /\ lastOp = "runSimulationStep"
      /\ lastWasRunning
      /\ Len(particles) > 0
      /\ AllFinished(particles) )
    => /\ ~isRunning
       /\ EventTypes(emitted) = << "update", "finished" >>
       /\ Len(emitted[1].particles) = Len(particles)
       /\ newPathData = << >>

\* C2: within one run (since the last reset) the `finished` event is posted
\* exactly once: never more than once, and once as soon as every particle of
\* a non-empty set is finished.
C2_FinishedExactlyOnce ==
    /\ finishedEvents <= 1
    /\ (Len(particles) > 0 /\ AllFinished(particles)) => finishedEvents = 1

\* C3: while no settings have ever been supplied, start and pause change
\* nothing: not Running, no timer, no particle, no event.
C3_NoOpBeforeReset ==
    settings = NULL
    => /\ ~isRunning
       /\ physicsTimer = 0
       /\ updateTimer = 0
       /\ intervals = {}
       /\ particles = << >>
       /\ emitted = << >>

\* C4: a run with N = 0 terminates immediately: once an integration pass has
\* run on a started engine with an empty particle set, the engine is not
\* Running.
C4_EmptyRunTerminates ==
    ( /\ lastOp = "runSimulationStep"
      /\ lastWasRunning
      /\ settings # NULL
      /\ Len(particles) = 0 )
    => ~isRunning

\* C5: after reset the engine is not Running, both timers are cancelled, every
\* particle is fresh (finished = FALSE, stepCount = 0), the pending path
\* buffers are empty, and exactly one event was posted: `resetComplete` with
\* the new particle set and one initial point for each particle id.
C5_ResetEffect ==
    lastOp = "reset"
    => /\ ~isRunning
       /\ physicsTimer = 0
       /\ updateTimer = 0
       /\ intervals = {}
       /\ \A k \in 1..Len(particles) :
            ~particles[k].finished /\ particles[k].stepCount = 0
       /\ DOMAIN newPathData = {}
       /\ EventTypes(emitted) = << "resetComplete" >>
       /\ emitted[1].particles = particles
       /\ DOMAIN emitted[1].initialPaths = ParticleIds(particles)
       /\ \A id \in DOMAIN emitted[1].initialPaths :
            Len(emitted[1].initialPaths[id]) = 1

\* reset arrived while the engine was Running with particles in flight
C5_Witness ==
    /\ lastOp = "reset"
    /\ lastWasRunning
    /\ Len(particles) > 0

\* C6: start on a Running engine changes no state variable, creates no timer
\* and posts nothing; start on an engine that is not Running makes it Running
\* with exactly one integration timer and one emission timer, and posts
\* nothing.
C6_StartEffect ==
    [][ Start =>
          IF isRunning
          THEN UNCHANGED engineVars /\ emitted' = << >>
          ELSE /\ isRunning'
               /\ physicsTimer' # 0
               /\ updateTimer' # 0
               /\ intervals' = { [ id |-> physicsTimer', fn |-> "runSimulationStep" ],
                                 [ id |-> updateTimer', fn |-> "sendUpdate" ] }
               /\ UNCHANGED << particles, newPathData, settings >>
               /\ emitted' = << >> ]_vars

\* start arrived while the engine was already Running
C6_Witness ==
    /\ lastOp = "start"
    /\ lastWasRunning
    /\ isRunning
    /\ Cardinality(intervals) = 2

\* C7: pause leaves the engine not Running with both timers cancelled and
\* the particle set and pending path buffers unchanged; an integration
\* callback that runs while the engine is not Running changes neither.
C7_PauseRetainsState ==
    [][ /\ Pause => /\ ~isRunning'
                    /\ physicsTimer' = 0
                    /\ updateTimer' = 0
                    /\ intervals' = {}
                    /\ UNCHANGED << particles, newPathData >>
        /\ (~isRunning /\ PhysicsTick) => UNCHANGED << particles, newPathData >>
      ]_vars

\* pause arrived on a Running engine with a particle in flight and points pending
C7_Witness ==
    /\ lastOp = "pause"
    /\ lastWasRunning
    /\ DOMAIN newPathData # {}
    /\ \E k \in 1..Len(particles) :
         ~particles[k].finished /\ particles[k].stepCount > 0

\* C8: while the engine is not Running (after pause, reset or completion and
\* before the next start), a timer callback that runs posts no event and
\* changes no particle and no path buffer, even one queued before the command.
C8_NoEffectAfterStop ==
    [][ (~isRunning /\ (PhysicsTick \/ EmissionTick))
        => /\ emitted' = << >>
           /\ UNCHANGED << particles, newPathData >> ]_vars

\* an emission callback queued before a pause ran after it, with points pending
C8_Witness ==
    /\ lastOp = "sendUpdate"
    /\ ~lastWasRunning
    /\ ~isRunning
    /\ DOMAIN newPathData # {}

\* C9: at the end of every integration pass of a Running engine with N > 0,
\* the engine is still Running if and only if some particle is unfinished.
C9_CompletionExact ==
    [][ (isRunning /\ Len(particles) > 0 /\ PhysicsTick)
        => (isRunning' <=> \E k \in 1..Len(particles') : ~particles'[k].finished)
      ]_vars

\* completion was detected for a set of at least two particles
C9_Witness ==
    /\ lastOp = "runSimulationStep"
    /\ lastWasRunning
    /\ ~isRunning
    /\ Len(particles) >= 2
    /\ AllFinished(particles)

\* C10: a finished particle is left exactly as it is (finished, position,
\* velocity, stepCount) by every step other than the handling of a reset.
C10_FinishedIsTerminal ==
    [][ \/ \A k \in 1..Len(particles) :
             particles[k].finished
             => k \in 1..Len(particles') /\ particles'[k] = particles[k]
        \/ lastOp' = "reset" ]_vars

\* an integration pass ran after some particle had been marked finished
C10_Witness ==
    /\ lastOp = "runSimulationStep"
    /\ \E j, k \in 1..Len(particles) :
         /\ particles[j].finished
         /\ ~particles[k].finished
         /\ particles[k].stepCount >= particles[j].stepCount + 2

\* the signed launch offset of a particle, micro display units
SignedImpact(p) == Sign(p.position.y) * p.impactParameter

\* C11: after any reset the particle ids are unique and form exactly the range
\* 0..N-1, particle i of the list having id i, whatever the settings and
\* however many impact parameters were dropped as duplicates.
C11_IdsDense ==
    /\ \A k \in 1..Len(particles) : particles[k].id = k - 1
    /\ ParticleIds(particles) = 0..(Len(particles) - 1)
    /\ Cardinality(ParticleIds(particles)) = Len(particles)

\* a reset in which two standard particles collided with focus-mode particles
C11_Witness ==
    /\ lastOp = "reset"
    /\ settings # NULL
    /\ settings.isFocusModeEnabled
    /\ Len(particles) > 2 * FOCUS_PAIRS
    /\ Len(particles) < 2 * FOCUS_PAIRS + settings.numParticles

\* C14: reset with focus mode on and numParticles = 0 yields exactly 300
\* particles, the pair for i = 1..150 launched at +i and -i femtometres with
\* ids 2(i-1) and 2(i-1)+1, so ids 0..299 and nothing dropped.
C14_FocusOnly ==
    ( /\ lastOp = "reset"
      /\ settings # NULL
      /\ settings.isFocusModeEnabled
      /\ settings.numParticles = 0 )
    => /\ Len(particles) = 300
       /\ ParticleIds(particles) = 0..299
       /\ \A i \in 1..150 :
            /\ particles[2 * i - 1].position.y = i
            /\ particles[2 * i].position.y = -i
            /\ particles[2 * i - 1].impactParameter
                 = i * (KEY_UNITS_PER_PX \div FM_PER_PX)
            /\ particles[2 * i].impactParameter
                 = i * (KEY_UNITS_PER_PX \div FM_PER_PX)

\* the focus-only reset happened
C14_Witness ==
    /\ lastOp = "reset"
    /\ settings # NULL
    /\ settings.isFocusModeEnabled
    /\ settings.numParticles = 0
    /\ Len(particles) = 300

\* C15: with focus mode off and an even numParticles = n >= 2, reset yields at
\* most n particles whose signed launch offsets are pairwise different and
\* symmetric about zero: each offset +b has exactly one partner at -b.
C15_EvenSymmetric ==
    ( /\ lastOp = "reset"
      /\ settings # NULL
      /\ ~settings.isFocusModeEnabled
      /\ settings.numParticles >= 2
      /\ settings.numParticles % 2 = 0 )
    => /\ Len(particles) <= settings.numParticles
       /\ \A j, k \in 1..Len(particles) :
            SignedImpact(particles[j]) = SignedImpact(particles[k]) => j = k
       /\ \A k \in 1..Len(particles) :
            /\ SignedImpact(particles[k]) # 0
            /\ Cardinality({ j \in 1..Len(particles) :
                               SignedImpact(particles[j])
                                 = -SignedImpact(particles[k]) }) = 1

\* the reset with the default numParticles = 50, focus mode off
C15_Witness ==
    /\ lastOp = "reset"
    /\ settings # NULL
    /\ ~settings.isFocusModeEnabled
    /\ settings.numParticles = 50
    /\ Len(particles) = 50

\* the pending buffer of particle id in paths, empty when it has none
BufferOf(paths, id) == IF id \in DOMAIN paths THEN paths[id] ELSE << >>

\* C12: the `finished` event carries one scatter record per particle of the
\* current set, in particle order; record k has x = the impact parameter of
\* particle k converted to femtometre units and y = the absolute angle of its
\* velocity in degrees, between 0 and 180 and in the half plane of velocity.x.
C12_ScatterRecords ==
    ( /\ lastOp = "runSimulationStep"
      /\ Len(emitted) > 0
      /\ emitted[Len(emitted)].type = "finished" )
    => LET sd == emitted[Len(emitted)].scatterData
       IN  /\ Len(sd) = Len(particles)
           /\ \A k \in 1..Len(particles) :
                LET v == particles[k].velocity
                IN  /\ particles[k].id = k - 1
                    /\ 2 * Abs(sd[k].x * MILLI_FM_UNITS - particles[k].impactParameter)
                         <= MILLI_FM_UNITS
                    /\ sd[k].y = AbsAtan2Deg(v.y, v.x)
                    /\ sd[k].y >= 0
                    /\ sd[k].y <= 180
                    /\ v.x > 0 => sd[k].y <= 90
                    /\ v.x < 0 => sd[k].y >= 90
                    /\ v.y = 0 => sd[k].y = (IF v.x < 0 THEN 180 ELSE 0)

\* `finished` was posted for a particle deflected towards negative y
C12_Witness ==
    /\ lastOp = "runSimulationStep"
    /\ Len(emitted) > 0
    /\ emitted[Len(emitted)].type = "finished"
    /\ \E k \in 1..Len(particles) :
         /\ particles[k].velocity.y < 0
         /\ emitted[Len(emitted)].scatterData[k].y > 0
         /\ emitted[Len(emitted)].scatterData[k].x > 0

\* C13: reset with numParticles = 0 and focus mode off leaves an empty particle
\* set and posts `resetComplete` with an empty particle list and an empty
\* initialPaths map.
C13_EmptyReset ==
    ( /\ lastOp = "reset"
      /\ settings # NULL
      /\ settings.numParticles = 0
      /\ ~settings.isFocusModeEnabled )
    => /\ Len(particles) = 0
       /\ EventTypes(emitted) = << "resetComplete" >>
       /\ Len(emitted[1].particles) = 0
       /\ DOMAIN emitted[1].initialPaths = {}

\* the empty reset arrived at a Running engine
C13_Witness ==
    /\ lastOp = "reset"
    /\ lastWasRunning
    /\ settings # NULL
    /\ settings.numParticles = 0
    /\ Len(particles) = 0

\* C16: an emission tick of a Running engine posts the pending buffers as
\* newPaths and leaves them empty; an integration pass only appends to the
\* buffers (sampling order); every key of the buffers is the id of a particle
\* of the current set.
C16_NewPathsAreDeltas ==
    [][ /\ (isRunning /\ EmissionTick)
           => /\ EventTypes(emitted') = << "update" >>
              /\ emitted'[1].newPaths = newPathData
              /\ DOMAIN newPathData' = {}
        /\ PhysicsTick
           => \A id \in DOMAIN newPathData :
                /\ id \in DOMAIN newPathData'
                /\ Len(newPathData'[id]) >= Len(newPathData[id])
                /\ SubSeq(newPathData'[id], 1, Len(newPathData[id])) = newPathData[id]
        /\ DOMAIN newPathData' \subseteq ParticleIds(particles')
      ]_vars

\* an emission tick flushed pending points
C16_Witness ==
    /\ lastOp = "sendUpdate"
    /\ lastWasRunning
    /\ Len(emitted) = 1
    /\ DOMAIN emitted[1].newPaths # {}
    /\ DOMAIN newPathData = {}

MirrorPair(ps, j, k) ==
    /\ j # k
    /\ ps[j].impactParameter = ps[k].impactParameter
    /\ ps[j].impactParameter > 0

\* C18: two particles launched at +b and -b are mirror images after every
\* pass: equal x and velocity.x, negated y and velocity.y, the same stepCount
\* and finished flag; at completion their scatter records carry equal angles.
C18_SignSymmetry ==
    \A j, k \in 1..Len(particles) :
        MirrorPair(particles, j, k)
        => /\ particles[j].position.x = particles[k].position.x
           /\ particles[j].position.y = -particles[k].position.y
           /\ particles[j].velocity.x = particles[k].velocity.x
           /\ particles[j].velocity.y = -particles[k].velocity.y
           /\ particles[j].stepCount = particles[k].stepCount
           /\ particles[j].finished = particles[k].finished
           /\ \A e \in 1..Len(emitted) :
                emitted[e].type = "finished"
                => emitted[e].scatterData[j].y = emitted[e].scatterData[k].y

\* a deflected mirror pair was reported by `finished`
C18_Witness ==
    /\ lastOp = "runSimulationStep"
    /\ Len(emitted) > 0
    /\ emitted[Len(emitted)].type = "finished"
    /\ \E j, k \in 1..Len(particles) :
         /\ MirrorPair(particles, j, k)
         /\ particles[j].velocity.y > 0
         /\ particles[k].velocity.y < 0
         /\ emitted[Len(emitted)].scatterData[j].y > 0

\* C17: once the engine is Running, integration passes keep coming until every
\* particle of the set is finished, unless a pause or a reset intervenes.
C17_Termination ==
    isRunning ~> ( \/ AllFinished(particles)
                   \/ lastOp \in { "pause", "reset" } )

\* a run of a non-empty set ended with every particle finished after it moved
C17_Witness ==
    /\ lastOp = "runSimulationStep"
    /\ lastWasRunning
    /\ ~isRunning
    /\ Len(particles) >= 2
    /\ AllFinished(particles)
    /\ \A k \in 1..Len(particles) : particles[k].stepCount > 0

\* TRUE when the engine has just posted `finished`
FinishedPosted ==
    /\ lastOp = "runSimulationStep"
    /\ Len(emitted) > 0
    /\ emitted[Len(emitted)].type = "finished"

C23_VelocityThenPosition ==
    [][ (PhysicsTick /\ isRunning /\ settings # NULL)
        => \A k \in 1..Len(particles) :
             LET p == particles[k]
                 q == particles'[k]
                 a == Acceleration(p, settings.targetZ)
             IN  IF ~p.finished /\ ~q.finished
                 THEN /\ q.velocity.x = p.velocity.x + a.x
                      /\ q.velocity.y = p.velocity.y + a.y
                      /\ q.position.x = p.position.x + q.velocity.x
                      /\ q.position.y = p.position.y + q.velocity.y
                      /\ q.stepCount = p.stepCount + 1
                 ELSE q.stepCount = p.stepCount
      ]_vars

\* a pass integrated a particle whose velocity it changed on both axes
C23_Witness ==
    /\ lastOp = "runSimulationStep"
    /\ lastWasRunning
    /\ \E k \in 1..Len(particles) :
         /\ ~particles[k].finished
         /\ particles[k].stepCount >= 2
         /\ particles[k].velocity.y # 0
         /\ particles[k].velocity.x # InitialVelocityX(settings.energy)

\* C27: no integration pass, emission tick, start or pause changes the number
\* of particles or the impactParameter, id or color of any particle; only a
\* reset replaces them.
C27_ConstructionFieldsFrozen ==
    [][ lastOp' # "reset"
        => /\ Len(particles') = Len(particles)
           /\ \A k \in 1..Len(particles) :
                /\ particles'[k].impactParameter = particles[k].impactParameter
                /\ particles'[k].id = particles[k].id
                /\ particles'[k].color = particles[k].color
      ]_vars

\* a whole run has ended and the particles still carry their launch fields
C27_Witness ==
    /\ FinishedPosted
    /\ Len(particles) >= 2
    /\ \A k \in 1..Len(particles) :
         /\ particles[k].id = k - 1
         /\ particles[k].impactParameter = FinalParticles(settings)[k].impactParameter
         /\ particles[k].color = FinalParticles(settings)[k].color
         /\ particles[k].position # FinalParticles(settings)[k].position

\* the keys handed to addParticle by the focus-mode loop, in call order
FocusKeys ==
    [ k \in 1..(2 * FOCUS_PAIRS) |->
        (IF k % 2 = 1 THEN 1 ELSE -1) * ((k + 1) \div 2)
          * (KEY_UNITS_PER_PX \div FM_PER_PX) ]

\* the keys handed to addParticle by the standard loop, in call order
StandardKeys(n) ==
    [ k \in 1..n |-> ToFixed6(StandardImpact(k - 1, n).num,
                              StandardImpact(k - 1, n).den) ]

\* every key handed to addParticle by a reset with settings s, in call order
AddedKeys(s) ==
    (IF s.isFocusModeEnabled THEN FocusKeys ELSE << >>) \o StandardKeys(s.numParticles)

\* the index of the first call that handed key to addParticle
FirstAdded(added, key) ==
    LET calls == { j \in 1..Len(added) : added[j] = key }
    IN  CHOOSE j \in calls : \A i \in calls : j <= i

\* C24: after a reset no two particles have the same key; every particle's key
\* was handed to addParticle, the particles stand in the order of the first
\* call with their key (a later call with the same key adds nothing), and the
\* number of particles is the number of distinct keys handed over.
C24_Deduplication ==
    (lastOp = "reset" /\ settings # NULL)
    => LET added == AddedKeys(settings)
           distinct == { added[j] : j \in 1..Len(added) }
       IN  /\ \A j, k \in 1..Len(particles) :
                j # k => SignedImpact(particles[j]) # SignedImpact(particles[k])
           /\ Len(particles) = Cardinality(distinct)
           /\ \A k \in 1..Len(particles) : SignedImpact(particles[k]) \in distinct
           /\ \A k \in 1..(Len(particles) - 1) :
                FirstAdded(added, SignedImpact(particles[k]))
                  < FirstAdded(added, SignedImpact(particles[k + 1]))

\* a reset in which a standard particle collided with a focus-mode particle
C24_Witness ==
    /\ lastOp = "reset"
    /\ settings # NULL
    /\ settings.isFocusModeEnabled
    /\ settings.numParticles > 0
    /\ Len(particles) < Len(AddedKeys(settings))
    /\ Len(particles) > 2 * FOCUS_PAIRS

\* C25: particle k of the list has id k - 1; with focus mode on the first 300
\* particles are the focus pairs (pair i at ids 2(i-1) and 2(i-1)+1, + before
\* -) and the standard particles that were not dropped follow in the order of
\* the standard loop; with focus mode off the list is the standard loop's.
C25_IdsFollowInsertion ==
    (lastOp = "reset" /\ settings # NULL)
    => LET standard == StandardKeys(settings.numParticles)
           nFocus == IF settings.isFocusModeEnabled THEN 2 * FOCUS_PAIRS ELSE 0
           focusSet == IF settings.isFocusModeEnabled
                       THEN { FocusKeys[j] : j \in 1..(2 * FOCUS_PAIRS) }
                       ELSE {}
           kept == { i \in 1..Len(standard) : standard[i] \notin focusSet }
           rank(i) == Cardinality({ j \in kept : j <= i })
       IN  /\ Len(particles) = nFocus + Cardinality(kept)
           /\ \A k \in 1..Len(particles) : particles[k].id = k - 1
           /\ \A i \in 1..(nFocus \div 2) :
                /\ particles[2 * i - 1].id = 2 * (i - 1)
                /\ SignedImpact(particles[2 * i - 1]) = FocusKeys[2 * i - 1]
                /\ particles[2 * i - 1].position.y = i
                /\ particles[2 * i].id = 2 * (i - 1) + 1
                /\ particles[2 * i].position.y = -i
           /\ \A i \in kept :
                SignedImpact(particles[nFocus + rank(i)]) = standard[i]

\* focus and standard particles together, one standard particle dropped
C25_Witness ==
    /\ lastOp = "reset"
    /\ settings # NULL
    /\ settings.isFocusModeEnabled
    /\ settings.numParticles >= 2
    /\ Len(particles) > 2 * FOCUS_PAIRS + 1
    /\ Len(particles) < 2 * FOCUS_PAIRS + settings.numParticles
    /\ particles[2 * FOCUS_PAIRS + 1].id = 2 * FOCUS_PAIRS

\* the worker as it is right after construction
FreshEngine ==
    [ particles |-> << >>, newPathData |-> << >>, settings |-> NULL,
      physicsTimer |-> 0, updateTimer |-> 0, isRunning |-> FALSE,
      intervals |-> {}, posted |-> << >> ]

\* C26: whatever the worker went through before (running or paused, earlier
\* particles, pending path buffers), a reset leaves the particle set and posts
\* the `resetComplete` payload that the same reset gives on a fresh worker.
C26_ResetHistoryIndependent ==
    (lastOp = "reset" /\ settings # NULL)
    => /\ particles = onReset(FreshEngine, settings).particles
       /\ emitted = onReset(FreshEngine, settings).posted
       /\ newPathData = << >>

\* the reset arrived in the middle of a run, with callbacks still queued
C26_Witness ==
    /\ lastOp = "reset"
    /\ lastWasRunning
    /\ pending = { "runSimulationStep", "sendUpdate" }
    /\ settings # NULL
    /\ Len(particles) >= 2

\* C21 as stated: when the page handles an `update` whose newPaths is empty,
\* its path data is neither replaced nor extended: the newPaths state and the
\* polylines drawn by the canvas stay as they are.
C21_EmptyUpdateLeavesPaths ==
    [][ ( /\ AppReceive
          /\ Head(toApp).type = "update"
          /\ DOMAIN Head(toApp).newPaths = {} )
        => /\ app'.newPaths = app.newPaths
           /\ canvas'.polylines = canvas.polylines
      ]_vars

\* C28 as stated: when no message is in flight in either direction, the page
\* shows 'running' exactly when the worker's isRunning is true.
C28_StatusAgreement ==
    (toWorker = << >> /\ toApp = << >>)
    => (app.status = "running" <=> isRunning)

\* C29 as stated: sampled points waiting in the pending buffers are eventually
\* sent in an `update` (which empties the buffers; a reset empties them too),
\* or the engine is waiting, paused, with particles still in flight. A run that
\* has completed by itself is not excused.
C29_PendingPointsDelivered ==
    (DOMAIN newPathData # {})
    ~> ( \/ DOMAIN newPathData = {}
         \/ ~isRunning /\ ~AllFinished(particles) )

\* C30 as stated: handling an event appends to each polyline exactly the
\* points that event delivers for it: the newPaths of an `update`, the
\* initialPaths of a `resetComplete` (on cleared polylines), nothing otherwise.
C30_PointsAppendedOnce ==
    [][ AppReceive
        => LET ev == Head(toApp)
               old == canvas.polylines
               new == canvas'.polylines
           IN  IF ev.type = "update"
               THEN \A id \in (DOMAIN old) \cup (DOMAIN new) \cup (DOMAIN ev.newPaths) :
                      BufferOf(new, id) = BufferOf(old, id) \o BufferOf(ev.newPaths, id)
               ELSE IF ev.type = "resetComplete"
               THEN \A id \in (DOMAIN new) \cup (DOMAIN ev.initialPaths) :
                      BufferOf(new, id) = BufferOf(ev.initialPaths, id)
               ELSE new = old
      ]_vars

\* C31: in every state the engine is Running exactly when it holds an
\* integration timer, exactly when it holds an emission timer, and the
\* registered intervals are exactly the ones it holds: one of each kind while
\* Running, none otherwise (no interval outlives a pause, a reset or a
\* natural completion).
C31_TimerFlagConsistency ==
    /\ isRunning <=> physicsTimer # 0
    /\ isRunning <=> updateTimer # 0
    /\ intervals = IF isRunning
                   THEN { [ id |-> physicsTimer, fn |-> "runSimulationStep" ],
                          [ id |-> updateTimer, fn |-> "sendUpdate" ] }
                   ELSE {}
    /\ isRunning => physicsTimer # updateTimer

\* a run has just completed by itself and left no timer behind
C31_Witness ==
    /\ FinishedPosted
    /\ lastWasRunning
    /\ ~isRunning
    /\ physicsTimer = 0
    /\ updateTimer = 0
    /\ intervals = {}

\* C32: an `update` or `finished` event the page handles was posted while the
\* worker used the particle set of the last resetComplete the page has
\* handled, or a later one; and scatter data the page holds come from a
\* `finished` of that particle set or a later one, never from a run before it.
C32_NoStaleEvents ==
    /\ [][ ( AppReceive /\ Head(toApp).type \in { "update", "finished" } )
           => Head(toAppBuilt) >= shown.reset ]_vars
    /\ [] ( app.scatterData # << >> => shown.finished >= shown.reset )

\* the page has handled the resetComplete of a second reset after it held the
\* scatter data of a completed run
C32_Witness ==
    /\ shown.reset >= 2
    /\ shown.finished >= 1
    /\ received # NULL
    /\ received.type = "resetComplete"
    /\ app.scatterData = << >>

\* C33 as stated: after a reset with focus mode off and numParticles >= 2,
\* every particle is launched within 0.8 x half the canvas height of the axis:
\* its launch offset is at most 240 display units.
C33_LaunchedInsideBand ==
    ( /\ lastOp = "reset"
      /\ settings # NULL
      /\ ~settings.isFocusModeEnabled
      /\ settings.numParticles >= 2 )
    => \A k \in 1..Len(particles) :
         Abs(particles[k].position.y) <= BandHalfHeight * FM_PER_PX

\* C34: in every state each particle that is not finished has a stepCount
\* equal to the number of integration passes run over the particles since the
\* last reset, so all of them have the same stepCount and are sampled in the
\* same passes.
C34_StepCountIsPassCount ==
    /\ \A k \in 1..Len(particles) :
         ~particles[k].finished => particles[k].stepCount = passes
    /\ \A j, k \in 1..Len(particles) :
         (~particles[j].finished /\ ~particles[k].finished)
         => particles[j].stepCount = particles[k].stepCount

\* a pass has run after one particle was marked finished and two others are
\* still in flight, both sampled in that pass
C34_Witness ==
    /\ lastOp = "runSimulationStep"
    /\ passes >= SAMPLE_EVERY
    /\ passes % SAMPLE_EVERY = 0
    /\ \E i, j, k \in 1..Len(particles) :
         /\ j # k
         /\ particles[i].finished
         /\ particles[i].stepCount < passes
         /\ ~particles[j].finished
         /\ ~particles[k].finished
         /\ particles[j].id \in DOMAIN newPathData
         /\ particles[k].id \in DOMAIN newPathData

====
